---- MODULE Spec2Model ----
(***************************************************************************)
(* A model of the model-assembly pipeline of the URDF visualizer           *)
(* (src/src/App.tsx): the load handlers of the App component, the parse    *)
(* effect with its asset resolver and blob-URL bookkeeping, entry-point    *)
(* selection, the two xacro include flatteners, the mesh loader, and the   *)
(* link highlighting of the viewer (src/src/components/Viewer.tsx).        *)
(*                                                                         *)
(* Strings are modelled structurally.  A file name is a sequence of        *)
(* chunks (<<"my", "robot", ".xacro">>), a path is a record of its         *)
(* directory segments and its file name, a document is a sequence of       *)
(* markup tokens.                                                          *)
(***************************************************************************)
EXTENDS Integers, Sequences, FiniteSets, TLC

VARIABLES
    \* ---- App component state (useState) ----
    urdfContent,        \* committed description text, or NoText
    currentFilePath,    \* entry-document path used for relative resolution
    loading,            \* loading indicator
    error,              \* user-visible error message, or Null
    robot,              \* the installed robot (named by the text it was parsed from)
    \* ---- App refs (useRef) ----
    maps,               \* heap of Map<string, File> objects
    localFilesRef,      \* localFilesRef.current: an index into maps
    createdBlobUrls,    \* createdBlobUrls.current: the tracked object URLs
    \* ---- environment ----
    loads,              \* load operations started so far, in start order
    timers,             \* parse timers / parse sessions created by the parse effect
    revoked,            \* per object URL minted so far: how often it was revoked
    mounted,            \* the component is mounted
    contentLoad,        \* load that committed urdfContent (0: none)
    pathLoad,           \* load that set currentFilePath (0: none)
    \* ---- entry-point selection, run on its own ----
    listing,            \* the files of the index, in its enumeration order
    candidates,         \* urdfFiles: the description candidates collected from it
    entryFile,          \* the selected entry file, or NoFile
    selDone,            \* collection and selection have run
    \* ---- include flattening, run on its own ----
    fdocs,              \* documents reachable by the flattener
    fmode,              \* "local" (flattenXacro) or "remote" (fetchAndFlattenXacro)
    fstack,             \* active calls of the flattener, innermost last
    fresult,            \* result of the outermost call
    fstatus,            \* "init", "run", "done", "failed", "deep"
    fwarn,              \* warnings recorded by the flattener (console.warn)
    fpass,              \* the pass that runs, and the text the first pass gave
    \* ---- the asset resolver (URL modifier), run on its own ----
    rUrl,               \* the asset reference the parser asks about
    rPath,              \* currentFilePath the parse timer closed over
    rFiles,             \* the files of localFilesRef.current
    rOut,               \* what the URL modifier returned (Null: not called yet)
    \* ---- package-macro substitution of include paths, run on its own ----
    sPath,              \* the path of an include directive, as segments
    sMode,              \* "local" or "remote"
    sOut,               \* the path after substitution (Null: not run yet)
    \* ---- the mesh loader, run on its own ----
    meshes,             \* the mesh requests of one parse
    \* ---- the viewer's link highlighting (Viewer.tsx), run on its own ----
    material,           \* mesh.material of each link's mesh
    selectedLinkRef,    \* selectedLinkRef.current: the selected link, or Null
    originalLinkMaterialRef, \* originalLinkMaterialRef.current, or Null
    dragInfoRef,        \* dragInfoRef.current: the drag in progress, or NoDrag
    selectedLinkName,   \* the prop selectedLinkName (App's linkSelection.name)
    isCtrlPressed       \* the prop isCtrlPressed

appVars == <<urdfContent, currentFilePath, loading, error, robot, maps,
             localFilesRef, createdBlobUrls, loads, timers, revoked,
             mounted, contentLoad, pathLoad>>
selVars == <<listing, candidates, entryFile, selDone>>
flatVars == <<fdocs, fmode, fstack, fresult, fstatus, fwarn, fpass>>
resVars == <<rUrl, rPath, rFiles, rOut>>
subVars == <<sPath, sMode, sOut>>
meshVars == <<meshes>>
viewVars == <<material, selectedLinkRef, originalLinkMaterialRef, dragInfoRef,
              selectedLinkName, isCtrlPressed>>
vars == <<appVars, selVars, flatVars, resVars, subVars, meshVars, viewVars>>

(***************************************************************************)
(* Bounds of the model.                                                    *)
(***************************************************************************)
MaxLoads == 2
MaxBlobs == 2
MaxListing == 3
MaxPieces == 3
MaxDepth == 4
MaxSegs == 3
MaxMeshes == 2

(***************************************************************************)
(* Strings.                                                                *)
(***************************************************************************)
Null == "null"
NoText == [src |-> Null, expanded |-> FALSE]
Text(t) == [src |-> t, expanded |-> FALSE]
EmptyPath == [dir |-> <<>>, name |-> <<>>]
Last(s) == s[Len(s)]

\* String.prototype.toLowerCase, chunk by chunk.
LowerChunk(c) ==
    CASE c = "MAIN" -> "main"
      [] c = "Main" -> "main"
      [] c = "Robot" -> "robot"
      [] c = ".URDF" -> ".urdf"
      [] c = ".XACRO" -> ".xacro"
      [] OTHER -> c
ToLowerCase(name) == [i \in 1..Len(name) |-> LowerChunk(name[i])]
\* String.prototype.includes / endsWith on a chunked name.
Includes(name, chunk) == \E i \in 1..Len(name) : name[i] = chunk
EndsWith(name, chunk) == Len(name) > 0 /\ Last(name) = chunk

\* processAndSetContent's macro test: filename.toLowerCase().endsWith('.xacro')
IsXacroFilename(name) == EndsWith(ToLowerCase(name), ".xacro")
\* handleSampleChange's macro test: filename.endsWith('.xacro')
IsXacroSample(name) == EndsWith(name, ".xacro")
\* candidate filter of handleFolderChange and handleDrop
IsCandidate(file) == EndsWith(file.name, ".urdf") \/ EndsWith(file.name, ".xacro")

(***************************************************************************)
(* Files.  A File object has a name (no directory) and the path it is      *)
(* indexed under (webkitRelativePath); text names its content.             *)
(***************************************************************************)
File(dir, name, text) == [dir |-> dir, name |-> name, text |-> text]
NoFile == File(<<>>, <<>>, Null)
PathOf(file) == [dir |-> file.dir, name |-> file.name]

(***************************************************************************)
(* Entry-point selection (handleFolderChange, handleDrop).                 *)
(***************************************************************************)
\* filesMap.forEach(file => { if (...) urdfFiles.push(file) })
CollectCandidates(files) == SelectSeq(files, IsCandidate)

HasMain(file) == Includes(ToLowerCase(file.name), "main")
HasRobot(file) == Includes(ToLowerCase(file.name), "robot")

\* urdfFiles.find(f => f.name.toLowerCase().includes('main'))
FindMain(files) ==
    IF \E i \in 1..Len(files) : HasMain(files[i])
    THEN files[CHOOSE i \in 1..Len(files) :
                  HasMain(files[i]) /\ \A j \in 1..(i - 1) : ~HasMain(files[j])]
    ELSE NoFile
\* urdfFiles.find(f => f.name.toLowerCase().includes('robot'))
FindRobot(files) ==
    IF \E i \in 1..Len(files) : HasRobot(files[i])
    THEN files[CHOOSE i \in 1..Len(files) :
                  HasRobot(files[i]) /\ \A j \in 1..(i - 1) : ~HasRobot(files[j])]
    ELSE NoFile

\* Mutant: the "robot" rule is tried before the "main" rule.
SelectEntry_RobotFirst(urdfFiles) ==
    IF FindRobot(urdfFiles) # NoFile THEN FindRobot(urdfFiles)
    ELSE IF FindMain(urdfFiles) # NoFile THEN FindMain(urdfFiles)
    ELSE urdfFiles[1]

\* let entryFile = urdfFiles.find(main); if (!entryFile) ...find(robot);
\* if (!entryFile) entryFile = urdfFiles[0];   (urdfFiles is not empty)
SelectEntry(urdfFiles) ==
    IF FindMain(urdfFiles) # NoFile THEN FindMain(urdfFiles)
    ELSE IF FindRobot(urdfFiles) # NoFile THEN FindRobot(urdfFiles)
    ELSE urdfFiles[1]

\* The files a picked or dropped tree may hold.
TreeFiles ==
    { File(<<"pkg", "urdf">>, <<"main", ".xacro">>, "X1"),
      File(<<>>, <<"MAIN", "_v2", ".urdf">>, "T1"),
      File(<<"a">>, <<"robot", ".urdf">>, "T2"),
      File(<<"sub">>, <<"my", "Robot", ".xacro">>, "X2"),
      File(<<>>, <<"top", ".urdf">>, "T3"),
      File(<<"sub">>, <<"deep", ".urdf">>, "T4"),
      File(<<>>, <<"README", ".md">>, "D1"),
      File(<<"sub">>, <<"arm", ".URDF">>, "T5"),
      File(<<>>, <<"arm", ".XACRO">>, "X3") }

\* Sequences of distinct files, of length 1..n
Listings(n) ==
    UNION { { s \in [1..k -> TreeFiles] : \A i, j \in 1..k : i # j => s[i] # s[j] }
            : k \in 1..n }

SelInit ==
    /\ listing \in Listings(MaxListing)
    /\ candidates = <<>>
    /\ entryFile = NoFile
    /\ selDone = FALSE

SelIdle ==
    /\ listing = <<>>
    /\ candidates = <<>>
    /\ entryFile = NoFile
    /\ selDone = FALSE

\* handleFolderChange lines 547-562 / handleDrop lines 638-667
CollectAndSelect ==
    /\ ~selDone
    /\ selDone' = TRUE
    /\ candidates' = CollectCandidates(listing)
    /\ entryFile' = IF Len(candidates') = 0 THEN NoFile ELSE SelectEntry(candidates')
    /\ UNCHANGED <<listing, viewVars, appVars, flatVars, resVars, subVars, meshVars>>

(***************************************************************************)
(* The App component: state after construction.                            *)
(***************************************************************************)
MapObject(files, owner) == [files |-> files, owner |-> owner]

AppInit ==
    /\ urdfContent = NoText
    /\ currentFilePath = EmptyPath
    /\ loading = FALSE
    /\ error = Null
    /\ robot = NoText
    /\ maps = << MapObject(<<>>, 0) >>
    /\ localFilesRef = 1
    /\ createdBlobUrls = {}
    /\ loads = <<>>
    /\ timers = <<>>
    /\ revoked = <<>>
    /\ mounted = TRUE
    /\ contentLoad = 0
    /\ pathLoad = 0

(***************************************************************************)
(* What the user can pick, drop or select.                                 *)
(***************************************************************************)
ArmStl == File(<<"pkg", "meshes">>, <<"arm", ".stl">>, "M1")
PickFiles ==
    { File(<<>>, <<"arm", ".urdf">>, "T1"),
      File(<<>>, <<"arm", ".xacro">>, "X1") }
FolderPicks ==
    { << File(<<"pkg", "sub">>, <<"deep", ".urdf">>, "T4"),
         File(<<"pkg">>, <<"top", ".urdf">>, "T3"), ArmStl >>,
      << File(<<"docs">>, <<"README", ".md">>, "D1") >> }
DropPicks ==
    { << File(<<"pkg", "urdf">>, <<"robot", ".xacro">>, "X2"), ArmStl >>,
      << File(<<"docs">>, <<"README", ".md">>, "D1") >> }
SampleFiles ==
    { File(<<"demo", "urdf">>, <<"robot", ".urdf">>, "S1"),
      File(<<"demo">>, <<"arm", ".xacro">>, "S2") }
FetchResults == {"ok", "http404", "neterr"}
NotFoundBody == "E404"

(***************************************************************************)
(* Load operations.                                                        *)
(***************************************************************************)
Load(kind, pc, entry, items) ==
    [kind |-> kind, pc |-> pc, entry |-> entry, items |-> items,
     rootRead |-> "pending", outcome |-> "pending", map |-> 0]
NewLoadId == Len(loads) + 1
CanStart == mounted /\ Len(loads) < MaxLoads
InFlight(l) == loads[l].pc # "end"
Finish(l, rootRead, outcome) ==
    [loads EXCEPT ![l].pc = "end", ![l].rootRead = rootRead, ![l].outcome = outcome]

\* createdBlobUrls.current.forEach(url => URL.revokeObjectURL(url))
RevokeAll ==
    [b \in DOMAIN revoked |->
        IF b \in createdBlobUrls THEN revoked[b] + 1 ELSE revoked[b]]

ParseTimerOf(v, l, pathNow, pLoadNow) ==
    [content |-> v, path |-> pathNow, cLoad |-> l, pLoad |-> pLoadNow, pc |-> "timer",
     placeholder |-> FALSE]

\* setUrdfContent(v) and the render it causes.  React skips the render when
\* the value is unchanged; otherwise the cleanup of the blob-URL effect runs
\* and then the parse effect, both keyed on [urdfContent].  pathNow,
\* loadingNow and errorNow are the values the handler has set so far.
SetUrdfContent(v, l, pathNow, pLoadNow, loadingNow, errorNow) ==
    IF v = urdfContent
    THEN /\ loading' = loadingNow
         /\ error' = errorNow
         /\ UNCHANGED <<urdfContent, contentLoad, robot, timers,
                        createdBlobUrls, revoked>>
    ELSE /\ urdfContent' = v
         /\ contentLoad' = l
         /\ revoked' = RevokeAll
         /\ createdBlobUrls' = {}
         /\ robot' = NoText
         /\ error' = Null
         /\ IF v = NoText
            THEN /\ loading' = loadingNow
                 /\ timers' = timers
            ELSE /\ loading' = TRUE
                 /\ timers' = Append(timers, ParseTimerOf(v, l, pathNow, pLoadNow))

\* processAndSetContent(filename, content) up to its first await
ProcessAndSetContent(l, file, pathNow, pLoadNow, loadingNow, errorNow) ==
    IF IsXacroFilename(file.name)
    THEN /\ loading' = TRUE
         /\ error' = errorNow
         /\ loads' = [loads EXCEPT ![l].pc = "flatten", ![l].rootRead = "ok",
                                   ![l].map = localFilesRef]
         /\ UNCHANGED <<urdfContent, contentLoad, robot, timers,
                        createdBlobUrls, revoked>>
    ELSE /\ SetUrdfContent(Text(file.text), l, pathNow, pLoadNow, loadingNow, errorNow)
         /\ loads' = Finish(l, "ok", "committed")

\* processAndSetContent after flattenXacro and XacroParser.parse settled
XacroDone(l, ok) ==
    /\ mounted
    /\ loads[l].pc = "flatten"
    /\ IF ok
       THEN /\ SetUrdfContent([src |-> loads[l].entry.text, expanded |-> TRUE], l,
                              currentFilePath, pathLoad, loading, error)
            /\ loads' = Finish(l, "ok", "committed")
       ELSE /\ error' = "Xacro Error"
            /\ loading' = FALSE
            /\ loads' = Finish(l, "ok", "failed")
            /\ UNCHANGED <<urdfContent, contentLoad, robot, timers,
                           createdBlobUrls, revoked>>
    /\ UNCHANGED <<currentFilePath, pathLoad, maps, localFilesRef, mounted>>
    /\ UNCHANGED <<selVars, viewVars, flatVars, resVars, subVars, meshVars>>

\* Mutant: the index is left as the previous load built it.
StartFile_KeepsIndex(f) ==
    /\ CanStart
    /\ loads' = Append(loads, Load("file", "reading", f, <<>>))
    /\ UNCHANGED <<urdfContent, currentFilePath, loading, error, robot, maps,
                   localFilesRef, createdBlobUrls, timers, revoked, mounted,
                   contentLoad, pathLoad>>
    /\ UNCHANGED <<selVars, viewVars, flatVars, resVars, subVars, meshVars>>

\* handleFileChange
StartFile(f) ==
    /\ CanStart
    /\ maps' = [maps EXCEPT ![localFilesRef] = MapObject(<<>>, NewLoadId)]
    /\ loads' = Append(loads, Load("file", "reading", f, <<>>))
    /\ UNCHANGED <<urdfContent, currentFilePath, loading, error, robot, localFilesRef,
                   createdBlobUrls, timers, revoked, mounted, contentLoad, pathLoad>>
    /\ UNCHANGED <<selVars, viewVars, flatVars, resVars, subVars, meshVars>>

\* handleFileChange: reader.onload
FileReadOk(l) ==
    /\ mounted
    /\ loads[l].kind = "file" /\ loads[l].pc = "reading"
    /\ currentFilePath' = [dir |-> <<>>, name |-> loads[l].entry.name]
    /\ pathLoad' = l
    /\ ProcessAndSetContent(l, loads[l].entry, currentFilePath', l, loading, error)
    /\ UNCHANGED <<maps, localFilesRef, mounted>>
    /\ UNCHANGED <<selVars, viewVars, flatVars, resVars, subVars, meshVars>>

\* handleFileChange: reader.onerror
FileReadErr(l) ==
    /\ mounted
    /\ loads[l].kind = "file" /\ loads[l].pc = "reading"
    /\ error' = "Failed to read file."
    /\ loads' = Finish(l, "failed", "failed")
    /\ UNCHANGED <<urdfContent, currentFilePath, loading, robot, maps, localFilesRef,
                   createdBlobUrls, timers, revoked, mounted, contentLoad, pathLoad>>
    /\ UNCHANGED <<selVars, viewVars, flatVars, resVars, subVars, meshVars>>

\* Mutant: the no-candidate branch reports the error and leaves the loading
\* indicator set.
FolderNoDescription_KeepsLoading ==
    /\ error' = "No .urdf or .xacro file found in the selected folder."
    /\ loading' = TRUE

\* handleFolderChange: if (urdfFiles.length === 0) { setError; setLoading(false); return }
FolderNoDescription ==
    /\ error' = "No .urdf or .xacro file found in the selected folder."
    /\ loading' = FALSE

\* handleFolderChange
StartFolder(fs) ==
    /\ CanStart
    /\ maps' = Append(maps, MapObject(fs, NewLoadId))
    /\ localFilesRef' = Len(maps) + 1
    /\ LET urdfFiles == CollectCandidates(fs) IN
         IF Len(urdfFiles) = 0
         THEN /\ FolderNoDescription
              /\ loads' = Append(loads, [Load("folder", "end", NoFile, <<>>)
                                           EXCEPT !.outcome = "nodesc"])
         ELSE /\ loading' = TRUE
              /\ error' = Null
              /\ loads' = Append(loads, Load("folder", "reading",
                                             SelectEntry(urdfFiles), <<>>))
    /\ UNCHANGED <<urdfContent, currentFilePath, robot, createdBlobUrls, timers,
                   revoked, mounted, contentLoad, pathLoad>>
    /\ UNCHANGED <<selVars, viewVars, flatVars, resVars, subVars, meshVars>>

\* handleFolderChange / handleDrop: reader.onload of the entry file
EntryReadOk(l) ==
    /\ mounted
    /\ loads[l].kind \in {"folder", "drop"} /\ loads[l].pc = "reading"
    /\ currentFilePath' = [dir |-> <<>>, name |-> loads[l].entry.name]
    /\ pathLoad' = l
    /\ ProcessAndSetContent(l, loads[l].entry, currentFilePath', l, loading, error)
    /\ UNCHANGED <<maps, localFilesRef, mounted>>
    /\ UNCHANGED <<selVars, viewVars, flatVars, resVars, subVars, meshVars>>

\* handleFolderChange / handleDrop: the entry file's read errors.  The reader
\* has no onerror handler: nothing runs.
EntryReadErr(l) ==
    /\ mounted
    /\ loads[l].kind \in {"folder", "drop"} /\ loads[l].pc = "reading"
    /\ loads' = Finish(l, "failed", "hung")
    /\ UNCHANGED <<urdfContent, currentFilePath, loading, error, robot, maps,
                   localFilesRef, createdBlobUrls, timers, revoked, mounted,
                   contentLoad, pathLoad>>
    /\ UNCHANGED <<selVars, viewVars, flatVars, resVars, subVars, meshVars>>

\* handleDrop up to: await getAllFiles(e.dataTransfer.items)
StartDrop(items) ==
    /\ CanStart
    /\ loading' = TRUE
    /\ error' = Null
    /\ loads' = Append(loads, Load("drop", "listing", NoFile, items))
    /\ UNCHANGED <<urdfContent, currentFilePath, robot, maps, localFilesRef,
                   createdBlobUrls, timers, revoked, mounted, contentLoad, pathLoad>>
    /\ UNCHANGED <<selVars, viewVars, flatVars, resVars, subVars, meshVars>>

\* Mutant: the traversal resolves after the first listing.
GetAllFiles_FirstListing(items) == SubSeq(items, 1, 1)

\* getAllFiles: resolves with every file of the dropped tree, once every
\* nested listing has completed.
GetAllFiles(items) == items

\* handleDrop: throw new Error("No .urdf ...") caught by the handler's catch
DropNoDescription ==
    /\ error' = "No .urdf or .xacro file found in the dropped folder."
    /\ loading' = FALSE

\* handleDrop after getAllFiles resolved
DropListed(l) ==
    /\ mounted
    /\ loads[l].kind = "drop" /\ loads[l].pc = "listing"
    /\ maps' = Append(maps, MapObject(GetAllFiles(loads[l].items), l))
    /\ localFilesRef' = Len(maps) + 1
    /\ LET urdfFiles == CollectCandidates(GetAllFiles(loads[l].items)) IN
         IF Len(urdfFiles) = 0
         THEN /\ DropNoDescription
              /\ loads' = Finish(l, "pending", "nodesc")
         ELSE /\ loads' = [loads EXCEPT ![l].pc = "reading",
                                        ![l].entry = SelectEntry(urdfFiles)]
              /\ UNCHANGED <<loading, error>>
    /\ UNCHANGED <<urdfContent, currentFilePath, robot, createdBlobUrls, timers,
                   revoked, mounted, contentLoad, pathLoad>>
    /\ UNCHANGED <<selVars, viewVars, flatVars, resVars, subVars, meshVars>>

\* handleDrop after getAllFiles resolved, the component being unmounted: the
\* state setters do nothing, the ref is still assigned.
DropListedUnmounted(l) ==
    /\ ~mounted
    /\ loads[l].kind = "drop" /\ loads[l].pc = "listing"
    /\ maps' = Append(maps, MapObject(GetAllFiles(loads[l].items), l))
    /\ localFilesRef' = Len(maps) + 1
    /\ loads' = Finish(l, "pending", "pending")
    /\ UNCHANGED <<urdfContent, currentFilePath, loading, error, robot,
                   createdBlobUrls, timers, revoked, mounted, contentLoad, pathLoad>>
    /\ UNCHANGED <<selVars, viewVars, flatVars, resVars, subVars, meshVars>>

\* handleSampleChange with the empty option: setUrdfContent(null); return
ClearSample ==
    /\ CanStart
    /\ SetUrdfContent(NoText, 0, currentFilePath, pathLoad, loading, error)
    /\ loads' = Append(loads, [Load("clear", "end", NoFile, <<>>)
                                 EXCEPT !.outcome = "cleared"])
    /\ UNCHANGED <<currentFilePath, pathLoad, maps, localFilesRef, mounted>>
    /\ UNCHANGED <<selVars, viewVars, flatVars, resVars, subVars, meshVars>>

\* handleSampleChange with a sample file
StartSample(f) ==
    /\ CanStart
    /\ maps' = [maps EXCEPT ![localFilesRef] = MapObject(<<>>, NewLoadId)]
    /\ loading' = TRUE
    /\ currentFilePath' = PathOf(f)
    /\ pathLoad' = NewLoadId
    /\ loads' = Append(loads, Load("sample", "fetching", f, <<>>))
    /\ UNCHANGED <<urdfContent, error, robot, localFilesRef, createdBlobUrls, timers,
                   revoked, mounted, contentLoad>>
    /\ UNCHANGED <<selVars, viewVars, flatVars, resVars, subVars, meshVars>>

\* handleSampleChange: the .catch handlers
SampleFailed(l, message) ==
    /\ error' = message
    /\ loading' = FALSE
    /\ loads' = Finish(l, "failed", "failed")
    /\ UNCHANGED <<urdfContent, contentLoad, robot, timers, createdBlobUrls, revoked>>

\* handleSampleChange: the fetch of the sample document settles.  The macro
\* branch goes through fetchAndFlattenXacro, which throws on a response that
\* is not ok; the plain branch reads res.text() whatever the status.
SampleFetched(l, res) ==
    /\ mounted
    /\ loads[l].kind = "sample" /\ loads[l].pc = "fetching"
    /\ IF IsXacroSample(loads[l].entry.name)
       THEN IF res = "ok"
            THEN ProcessAndSetContent(l, loads[l].entry, currentFilePath, pathLoad,
                                      loading, error)
            ELSE SampleFailed(l, "Failed to load Xacro")
       ELSE CASE res = "ok" ->
                  /\ SetUrdfContent(Text(loads[l].entry.text), l, currentFilePath,
                                    pathLoad, loading, error)
                  /\ loads' = Finish(l, "ok", "committed")
              [] res = "http404" ->
                  /\ SetUrdfContent(Text(NotFoundBody), l, currentFilePath,
                                    pathLoad, loading, error)
                  /\ loads' = Finish(l, "failed", "committed")
              [] OTHER -> SampleFailed(l, "Failed to fetch")
    /\ UNCHANGED <<currentFilePath, pathLoad, maps, localFilesRef, mounted>>
    /\ UNCHANGED <<selVars, viewVars, flatVars, resVars, subVars, meshVars>>

(***************************************************************************)
(* The parse effect's timer and the asset resolver it installs.            *)
(***************************************************************************)
Url(scheme, dir, name) == [scheme |-> scheme, dir |-> dir, name |-> name]
Resolved(scheme, dir, name, blob) ==
    [scheme |-> scheme, dir |-> dir, name |-> name, blob |-> blob]

\* The asset references the description parser asks the resolver about.
AssetUrls ==
    { Url("rel", <<"pkg", "meshes">>, <<"arm", ".stl">>),
      Url("rel", <<"meshes">>, <<"arm", ".stl">>),
      Url("package", <<"pkg", "meshes">>, <<"arm", ".stl">>),
      Url("rel", <<"textures">>, <<"skin", ".png">>) }

\* findFileInMap(url, map): exact match of the reference against the keys
FindFileInMap(url, files) ==
    IF \E i \in 1..Len(files) :
          url.scheme = "rel" /\ PathOf(files[i]) = [dir |-> url.dir, name |-> url.name]
    THEN files[CHOOSE i \in 1..Len(files) :
                  PathOf(files[i]) = [dir |-> url.dir, name |-> url.name]]
    ELSE NoFile

\* modelDir.endsWith('/urdf')
ModelDirEndsWithUrdf(path) == Len(path.dir) >= 2 /\ Last(path.dir) = "urdf"
\* pathParts.length > 1 ? pathParts[0] : ''
ModelPackageRoot(path) == IF Len(path.dir) >= 1 THEN <<path.dir[1]>> ELSE <<"">>
\* url.startsWith('..')
StartsWithDotDot(url) == Len(url.dir) >= 1 /\ url.dir[1] = ".."

\* The URL modifier, below its local-file rule (steps 1 and 2), for the entry
\* path the timer closed over.
ResolveRemote(url, path) ==
    IF url.scheme = "package"
    THEN Resolved("base", url.dir, url.name, 0)
    ELSE IF url.scheme = "rel"
    THEN IF ModelDirEndsWithUrdf(path) /\ ~StartsWithDotDot(url)
         THEN Resolved("base", ModelPackageRoot(path) \o url.dir, url.name, 0)
         ELSE Resolved("base", path.dir \o url.dir, url.name, 0)
    ELSE Resolved(url.scheme, url.dir, url.name, 0)

\* Mutant: a rejected text leaves the loading indicator as it is.
ParseRejected_KeepsLoading ==
    /\ robot' = robot
    /\ error' = "Failed to parse URDF"
    /\ loading' = loading

\* catch (err) { setError(`Failed to parse URDF: ${message}`); setLoading(false) }
\* and the setLoading(false) after it; setRobot is not reached.
ParseRejected ==
    /\ robot' = robot
    /\ error' = "Failed to parse URDF"
    /\ loading' = FALSE

\* The setTimeout callback of the parse effect: loader.parse(urdfContent).
\* res: the parser accepts the text and no mesh is loading ("ok"), accepts it
\* with meshes still loading ("meshes"), or throws ("err").  The timer is
\* never cleared, so it also fires after a newer commit or after unmount,
\* when the state setters do nothing.
ParseTimer(t, res) ==
    /\ timers[t].pc = "timer"
    /\ timers' = [timers EXCEPT ![t].pc = IF res = "meshes" THEN "meshes"
                                          ELSE IF res = "err" THEN "rejected" ELSE "done"]
    /\ IF mounted
       THEN IF res = "err"
            THEN ParseRejected
            ELSE /\ robot' = timers[t].content
                 /\ error' = error
                 /\ loading' = IF res = "meshes" THEN loading ELSE FALSE
       ELSE UNCHANGED <<robot, error, loading>>
    /\ UNCHANGED <<urdfContent, currentFilePath, maps, localFilesRef, createdBlobUrls,
                   loads, revoked, mounted, contentLoad, pathLoad>>
    /\ UNCHANGED <<selVars, viewVars, flatVars, resVars, subVars, meshVars>>

\* manager.onLoad = () => setLoading(false), once every mesh request has
\* completed; placeholder: some request completed with an empty
\* THREE.Group (console.error is the only trace of it).
MeshesLoaded(t, placeholder) ==
    /\ timers[t].pc = "meshes"
    /\ timers' = [timers EXCEPT ![t].pc = "done", ![t].placeholder = placeholder]
    /\ loading' = IF mounted THEN FALSE ELSE loading
    /\ UNCHANGED <<urdfContent, currentFilePath, error, robot, maps, localFilesRef,
                   createdBlobUrls, loads, revoked, mounted, contentLoad, pathLoad>>
    /\ UNCHANGED <<selVars, viewVars, flatVars, resVars, subVars, meshVars>>

\* Mutant: the minted object URL is not recorded.
TrackBlobUrl_Forgets(blobUrl) == createdBlobUrls

\* createdBlobUrls.current.push(blobUrl)
TrackBlobUrl(blobUrl) == createdBlobUrls \cup {blobUrl}

\* manager.setURLModifier(url => ...), called by a mesh loader of session t
ResolverCall(t, url) ==
    /\ timers[t].pc = "meshes"
    /\ LET files == maps[localFilesRef].files
           file == FindFileInMap(url, files)
       IN IF Len(files) > 0 /\ file # NoFile
          THEN /\ Len(revoked) < MaxBlobs
               /\ revoked' = Append(revoked, 0)
               /\ createdBlobUrls' = TrackBlobUrl(Len(revoked) + 1)
          ELSE UNCHANGED <<revoked, createdBlobUrls>>
    /\ UNCHANGED <<urdfContent, currentFilePath, loading, error, robot, maps,
                   localFilesRef, loads, timers, mounted, contentLoad, pathLoad>>
    /\ UNCHANGED <<selVars, viewVars, flatVars, resVars, subVars, meshVars>>

\* The component is discarded: the cleanup of the blob-URL effect runs.
Unmount ==
    /\ mounted
    /\ mounted' = FALSE
    /\ revoked' = RevokeAll
    /\ createdBlobUrls' = {}
    /\ UNCHANGED <<urdfContent, currentFilePath, loading, error, robot, maps,
                   localFilesRef, loads, timers, contentLoad, pathLoad>>
    /\ UNCHANGED <<selVars, viewVars, flatVars, resVars, subVars, meshVars>>

Next ==
    \/ \E f \in PickFiles : StartFile(f)
    \/ \E l \in 1..Len(loads) : FileReadOk(l)
    \/ \E l \in 1..Len(loads) : FileReadErr(l)
    \/ \E fs \in FolderPicks : StartFolder(fs)
    \/ \E l \in 1..Len(loads) : EntryReadOk(l)
    \/ \E l \in 1..Len(loads) : EntryReadErr(l)
    \/ \E items \in DropPicks : StartDrop(items)
    \/ \E l \in 1..Len(loads) : DropListed(l)
    \/ \E l \in 1..Len(loads) : DropListedUnmounted(l)
    \/ ClearSample
    \/ \E f \in SampleFiles : StartSample(f)
    \/ \E l \in 1..Len(loads), res \in FetchResults : SampleFetched(l, res)
    \/ \E l \in 1..Len(loads), ok \in BOOLEAN : XacroDone(l, ok)
    \/ \E t \in 1..Len(timers), res \in {"ok", "meshes", "err"} : ParseTimer(t, res)
    \/ \E t \in 1..Len(timers), placeholder \in BOOLEAN : MeshesLoaded(t, placeholder)
    \/ \E t \in 1..Len(timers), url \in AssetUrls : ResolverCall(t, url)
    \/ Unmount


(***************************************************************************)
(* Include flattening (flattenXacro, fetchAndFlattenXacro).                *)
(*                                                                         *)
(* A document is a sequence of tokens, each a tuple: <<"xml">> an XML      *)
(* declaration, <<"robot">> and <<"/robot">> the root element's tags,      *)
(* <<"ws">> white space, <<"cmt">> a comment, <<"x">>, <<"y">>, <<"z">>    *)
(* other markup.  An include directive is <<"inc">> (the text              *)
(* <xacro:include filename=" ) or <<"inc=">> (the same with spaces around  *)
(* the =), a path token <<"path", seg, ...>>, <<"q">> (the closing quote), *)
(* any number of <<"ws">>, and <<"end">> (the text /> ).                   *)
(***************************************************************************)
Tok(k) == <<k>>
PathTok(segs) == <<"path">> \o segs
IsPathTok(t) == Len(t) >= 1 /\ t[1] = "path"
PathSegs(t) == Tail(t)

\* The opening of a directive each regular expression accepts:
\* /<xacro:include\s+filename=['"].../ and /<xacro:include\s+filename\s*=\s*['"].../
IncludeOpen(mode) ==
    IF mode = "local" THEN {Tok("inc")} ELSE {Tok("inc"), Tok("inc=")}

\* \s* : the number of white-space tokens from position j on
RECURSIVE WsRun(_, _)
WsRun(text, j) ==
    IF j <= Len(text) /\ text[j] = Tok("ws") THEN 1 + WsRun(text, j + 1) ELSE 0

\* The length of the directive the regular expression matches at position i,
\* or 0 when it does not match there.
MatchAt(text, i, mode) ==
    IF /\ i + 3 <= Len(text)
       /\ text[i] \in IncludeOpen(mode)
       /\ IsPathTok(text[i + 1])
       /\ text[i + 2] = Tok("q")
       /\ i + 3 + WsRun(text, i + 3) <= Len(text)
       /\ text[i + 3 + WsRun(text, i + 3)] = Tok("end")
    THEN 4 + WsRun(text, i + 3)
    ELSE 0

\* while ((match = includeRegex.exec(content)) !== null) matches.push(...)
RECURSIVE ScanFrom(_, _, _)
ScanFrom(text, i, mode) ==
    IF i > Len(text) THEN <<>>
    ELSE IF MatchAt(text, i, mode) > 0
         THEN << [index |-> i, len |-> MatchAt(text, i, mode),
                  path |-> PathSegs(text[i + 1])] >>
              \o ScanFrom(text, i + MatchAt(text, i, mode), mode)
         ELSE ScanFrom(text, i + 1, mode)
Scan(text, mode) == ScanFrom(text, 1, mode)

\* Mutant: the matches are processed from the first to the last.
MatchOrder_Forward(n) == [k \in 1..n |-> k]

\* for (let i = matches.length - 1; i >= 0; i--): the k-th match processed
MatchOrder(n) == [k \in 1..n |-> n + 1 - k]

\* before + included + after, for the match at index of length len
Splice(newContent, index, len, included) ==
    SubSeq(newContent, 1, index - 1) \o included
        \o SubSeq(newContent, index + len, Len(newContent))

\* replace(/<\?xml.*?\?>/g, '')
StripXmlDecl(text) == SelectSeq(text, LAMBDA t : t # Tok("xml"))
\* replace(/<robot\b[^>]*>/, ''): the first opening tag
StripRobotOpen(text) ==
    IF \E i \in 1..Len(text) : text[i] = Tok("robot")
    THEN LET i == CHOOSE i \in 1..Len(text) :
                     text[i] = Tok("robot") /\ \A j \in 1..(i - 1) : text[j] # Tok("robot")
         IN SubSeq(text, 1, i - 1) \o SubSeq(text, i + 1, Len(text))
    ELSE text
\* replace(/<\/robot>\s*$/, ''): a closing tag followed by white space only
StripRobotCloseLocal(text) ==
    IF \E i \in 1..Len(text) :
          text[i] = Tok("/robot") /\ \A j \in (i + 1)..Len(text) : text[j] = Tok("ws")
    THEN LET i == CHOOSE i \in 1..Len(text) :
                     text[i] = Tok("/robot") /\ \A j \in (i + 1)..Len(text) : text[j] = Tok("ws")
         IN SubSeq(text, 1, i - 1)
    ELSE text
\* replace(/<\/robot>[\s\S]*$/, ''): from the first closing tag to the end
StripRobotCloseRemote(text) ==
    IF \E i \in 1..Len(text) : text[i] = Tok("/robot")
    THEN LET i == CHOOSE i \in 1..Len(text) :
                     text[i] = Tok("/robot") /\ \A j \in 1..(i - 1) : text[j] # Tok("/robot")
         IN SubSeq(text, 1, i - 1)
    ELSE text
StripLocal(text) == StripRobotCloseLocal(StripRobotOpen(StripXmlDecl(text)))
StripRemote(text) == StripRobotCloseRemote(StripRobotOpen(StripXmlDecl(text)))

(***************************************************************************)
(* Include paths, as the segments String.split('/') gives.                 *)
(***************************************************************************)
FindPkg == "$(find pkg)"
\* A substitution argument that is not a package lookup
ArgPkg == "$(arg pkg)"
\* path.replace(/\$\(find\s+([\w_]+)\)/g, '$1')
LocalResolvedPath(segs) ==
    [i \in 1..Len(segs) |-> IF segs[i] = FindPkg THEN "pkg" ELSE segs[i]]
\* includePath.replace(/\$\([a-z_]+\s+([\w_]+)\)/g, 'package://$1')
RECURSIVE RemoteCleanPath(_)
RemoteCleanPath(segs) ==
    IF segs = <<>> THEN <<>>
    ELSE (IF Head(segs) \in {FindPkg, ArgPkg} THEN <<"package:", "", "pkg">>
          ELSE <<Head(segs)>>)
         \o RemoteCleanPath(Tail(segs))
\* if (cleanPath.startsWith('/')) cleanPath = cleanPath.substring(1)
StripLeadingSlash(segs) ==
    IF Len(segs) >= 2 /\ segs[1] = "" THEN Tail(segs) ELSE segs
\* cleanPath.startsWith('package://')
IsPackagePath(segs) == Len(segs) >= 3 /\ segs[1] = "package:" /\ segs[2] = ""
\* import.meta.env.BASE_URL, taken to be '/'
BaseUrl == <<"">>
\* relative.startsWith('http') || relative.startsWith('/')
IsAbsoluteUrl(segs) ==
    Len(segs) >= 1 /\ (segs[1] \in {"http:", "https:"} \/ (segs[1] = "" /\ Len(segs) >= 2))
Pop(stack) == IF stack = <<>> THEN <<>> ELSE SubSeq(stack, 1, Len(stack) - 1)
RECURSIVE PushParts(_, _)
PushParts(stack, parts) ==
    IF parts = <<>> THEN stack
    ELSE PushParts(IF Head(parts) = "." THEN stack
                   ELSE IF Head(parts) = ".." THEN Pop(stack)
                   ELSE Append(stack, Head(parts)),
                   Tail(parts))
\* resolveUrlPath(base, relative)
ResolveUrlPath(base, relative) ==
    IF IsAbsoluteUrl(relative) THEN relative ELSE PushParts(Pop(base), relative)
\* targetUrl.replace(/([^:])\/\//g, '$1/')
FixDoubleSlashes(segs) ==
    LET keep(i) == ~(/\ segs[i] = ""
                     /\ i > 1 /\ i < Len(segs)
                     /\ segs[i - 1] \notin {"", "http:", "https:", "package:"})
        RECURSIVE From(_)
        From(i) == IF i > Len(segs) THEN <<>>
                   ELSE (IF keep(i) THEN <<segs[i]>> ELSE <<>>) \o From(i + 1)
    IN From(1)
\* fetchAndFlattenXacro: the URL of the directive's target
RemoteTargetUrl(url, includePath) ==
    LET cleanPath == StripLeadingSlash(RemoteCleanPath(includePath)) IN
      FixDoubleSlashes(IF IsPackagePath(cleanPath)
                       THEN BaseUrl \o SubSeq(cleanPath, 3, Len(cleanPath))
                       ELSE ResolveUrlPath(url, cleanPath))
\* The key a directive's target is looked up under
TargetKey(mode, key, includePath) ==
    IF mode = "local" THEN LocalResolvedPath(includePath)
    ELSE RemoteTargetUrl(key, includePath)

(***************************************************************************)
(* The documents a flattening run can reach: fdocs.text gives the text of  *)
(* each document name, fdocs.present the names that exist (the keys of the *)
(* local file index, or the URLs the server answers with 200).             *)
(***************************************************************************)
RootKey == <<"a.xacro">>
BKey == <<"b.xacro">>
CKey == <<"c.xacro">>
MissingKey == <<"m.xacro">>
DocKeys == {RootKey, BKey, CKey}

Include(key) == << Tok("inc"), PathTok(key), Tok("q"), Tok("end") >>
IncludeWs(key) == << Tok("inc"), PathTok(key), Tok("q"), Tok("ws"), Tok("end") >>
Wrap(body) == << Tok("robot") >> \o body \o << Tok("/robot") >>

Pieces ==
    { << Tok("x") >>, << Tok("y"), Tok("y") >>,
      Include(BKey), IncludeWs(CKey), Include(MissingKey) }
RECURSIVE Bodies(_)
Bodies(n) ==
    IF n = 0 THEN { <<>> }
    ELSE Bodies(n - 1) \cup { b \o p : b \in Bodies(n - 1), p \in Pieces }
RootTexts == { Wrap(b) : b \in Bodies(MaxPieces) }
NoDoc == << Tok("404") >>
BTexts ==
    { << Tok("xml"), Tok("robot"), Tok("x"), Tok("x"), Tok("x"), Tok("/robot") >>,
      Wrap(Include(CKey) \o << Tok("y") >>) \o << Tok("ws") >>,
      Wrap(Include(RootKey)) }
CTexts ==
    { Wrap(<< Tok("z") >>), << Tok("z"), Tok("z") >> }
DocStores ==
    { [text |-> [k \in DocKeys |-> IF k = RootKey THEN a ELSE IF k = BKey THEN b ELSE c],
       present |-> {k \in DocKeys : (k = RootKey /\ inIndex) \/ (k = BKey /\ b # NoDoc)
                                     \/ (k = CKey /\ c # NoDoc)}] :
        a \in RootTexts, b \in BTexts \cup {NoDoc}, c \in CTexts \cup {NoDoc},
        inIndex \in BOOLEAN }

\* findFileInMap(resolvedPath, filesMap): exact match against the keys
FindIncludeInMap(path, docs) == path \in docs.present
\* fetch(url) answered with response.ok
FetchOk(url, docs) == url \in docs.present
TargetFound(mode, target, docs) ==
    IF mode = "local" THEN FindIncludeInMap(target, docs) ELSE FetchOk(target, docs)

(***************************************************************************)
(* The flatteners as a machine.  fstack is the chain of active calls; a    *)
(* frame holds the document's name, newContent, the matches found in the   *)
(* content, and the number of matches already processed.                   *)
(***************************************************************************)
\* Mutant: a call starts from the text without its wrapper.
Frame_Unwrapped(key, content) ==
    [key |-> key, newContent |-> StripLocal(content), matches |-> Scan(content, fmode),
     k |-> 0]

Frame(key, content) ==
    [key |-> key, newContent |-> content, matches |-> Scan(content, fmode), k |-> 0]
Top == fstack[Len(fstack)]
Matches(frame) == frame.matches
\* The match the loop of the top call is at
CurrentMatch(frame) == Matches(frame)[MatchOrder(Len(Matches(frame)))[frame.k + 1]]
SetTop(stack, frame) == [stack EXCEPT ![Len(stack)] = frame]

\* The first flattening pass of a load runs; no earlier pass gave a text.
FirstPass == [n |-> 1, first |-> <<>>]

FlatInit ==
    /\ fmode \in {"local", "remote"}
    /\ fdocs \in DocStores
    /\ fmode = "remote" /\ RootKey \notin fdocs.present
          => fdocs.text[RootKey] = Wrap(<<>>)
    /\ fstack = <<>>
    /\ fresult = <<>>
    /\ fstatus = "init"
    /\ fwarn = {}
    /\ fpass = FirstPass

\* Mutant: an include whose target is not found fails the whole run.
OnMissingInclude_Abort == "abort"

\* if (file) { ... } without an else; try { ... } catch (e) { console.warn }
OnMissingInclude == "skip"

\* processAndSetContent / handleSampleChange calling the flattener on the root
FlatStart ==
    /\ fstatus = "init"
    /\ IF fmode = "remote" /\ ~FetchOk(RootKey, fdocs)
       THEN /\ fstatus' = "failed"
            /\ fstack' = fstack
       ELSE /\ fstatus' = "run"
            /\ fstack' = << Frame(RootKey, fdocs.text[RootKey]) >>
    /\ UNCHANGED <<fpass, fdocs, fmode, fresult, fwarn,
                   appVars, selVars, viewVars, resVars, subVars, meshVars>>

\* One iteration of the loop whose target is found: the recursive call
FlatInclude ==
    /\ fstatus = "run"
    /\ Top.k < Len(Matches(Top))
    /\ LET target == TargetKey(fmode, Top.key, CurrentMatch(Top).path) IN
         /\ TargetFound(fmode, target, fdocs)
         /\ Len(fstack) < MaxDepth
         /\ fstack' = Append(fstack,
                Frame(target, IF fmode = "local" THEN StripLocal(fdocs.text[target])
                              ELSE fdocs.text[target]))
    /\ UNCHANGED <<fpass, fdocs, fmode, fresult, fstatus, fwarn,
                   appVars, selVars, viewVars, resVars, subVars, meshVars>>

\* The recursion has no bound in the code; the model stops at MaxDepth calls.
FlatTooDeep ==
    /\ fstatus = "run"
    /\ Top.k < Len(Matches(Top))
    /\ TargetFound(fmode, TargetKey(fmode, Top.key, CurrentMatch(Top).path), fdocs)
    /\ Len(fstack) = MaxDepth
    /\ fstatus' = "deep"
    /\ UNCHANGED <<fpass, fdocs, fmode, fstack, fresult, fwarn,
                   appVars, selVars, viewVars, resVars, subVars, meshVars>>

\* One iteration of the loop whose target is not found
FlatSkip ==
    /\ fstatus = "run"
    /\ Top.k < Len(Matches(Top))
    /\ LET target == TargetKey(fmode, Top.key, CurrentMatch(Top).path) IN
         /\ ~TargetFound(fmode, target, fdocs)
         /\ IF OnMissingInclude = "skip"
            THEN /\ fstack' = SetTop(fstack, [Top EXCEPT !.k = @ + 1])
                 /\ fwarn' = IF fmode = "remote" THEN fwarn \cup {target} ELSE fwarn
                 /\ fstatus' = fstatus
            ELSE /\ fstack' = <<>>
                 /\ fwarn' = fwarn
                 /\ fstatus' = "failed"
    /\ UNCHANGED <<fpass, fdocs, fmode, fresult,
                   appVars, selVars, viewVars, resVars, subVars, meshVars>>

\* return newContent: the caller strips (remote) and splices the fragment in
FlatReturn ==
    /\ fstatus = "run"
    /\ Top.k = Len(Matches(Top))
    /\ IF Len(fstack) = 1
       THEN /\ fresult' = Top.newContent
            /\ fstatus' = "done"
            /\ fstack' = <<>>
       ELSE LET caller == fstack[Len(fstack) - 1]
                m == CurrentMatch(caller)
                included == IF fmode = "remote" THEN StripRemote(Top.newContent)
                            ELSE Top.newContent
            IN /\ fstack' = SetTop(Pop(fstack),
                      [caller EXCEPT !.newContent = Splice(@, m.index, m.len, included),
                                     !.k = @ + 1])
               /\ fresult' = fresult
               /\ fstatus' = fstatus
    /\ UNCHANGED <<fpass, fdocs, fmode, fwarn,
                   appVars, selVars, viewVars, resVars, subVars, meshVars>>

(***************************************************************************)
(* The asset resolver (manager.setURLModifier) as a function of the        *)
(* reference, the entry path and the file index.                           *)
(***************************************************************************)
NoResult == Resolved("none", <<>>, <<>>, 0)

\* Mutant: the local-file rule is left out.
URLModifier_NoLocalRule(url, path, files) == ResolveRemote(url, path)

\* manager.setURLModifier((url) => ...): the value returned
URLModifier(url, path, files) ==
    IF Len(files) > 0 /\ FindFileInMap(url, files) # NoFile
    THEN Resolved("blob", FindFileInMap(url, files).dir, FindFileInMap(url, files).name, 1)
    ELSE ResolveRemote(url, path)

\* The references a description may hold.
ResolverUrls ==
    { Url("rel", <<"meshes">>, <<"arm", ".stl">>),
      Url("rel", <<"pkg", "meshes">>, <<"arm", ".stl">>),
      Url("rel", <<"..", "meshes">>, <<"arm", ".stl">>),
      Url("rel", <<>>, <<"arm", ".stl">>),
      Url("package", <<"pkg", "meshes">>, <<"arm", ".stl">>),
      Url("abs", <<"pkg", "meshes">>, <<"arm", ".stl">>),
      Url("http", <<"host", "meshes">>, <<"arm", ".stl">>),
      Url("blob", <<"host">>, <<"uuid">>) }
\* The values currentFilePath can hold: a file name (local loads) or the
\* path of a sample below the static base.
EntryPaths ==
    { [dir |-> <<>>, name |-> <<"robot", ".urdf">>],
      [dir |-> <<"urdf">>, name |-> <<"robot", ".urdf">>],
      [dir |-> <<"pkg", "urdf">>, name |-> <<"robot", ".urdf">>],
      [dir |-> <<"ws", "src", "pkg", "urdf">>, name |-> <<"robot", ".urdf">>],
      [dir |-> <<"demo">>, name |-> <<"arm", ".xacro">>] }
IndexListings ==
    { <<>>,
      << ArmStl >>,
      << File(<<"meshes">>, <<"arm", ".stl">>, "M2"),
         File(<<>>, <<"robot", ".urdf">>, "T1") >>,
      << File(<<>>, <<"arm", ".stl">>, "M3"), ArmStl >> }

ResInit ==
    /\ rUrl \in ResolverUrls
    /\ rPath \in EntryPaths
    /\ rFiles \in IndexListings
    /\ rOut = NoResult

ResIdle ==
    /\ rUrl = Url("rel", <<>>, <<>>)
    /\ rPath = EmptyPath
    /\ rFiles = <<>>
    /\ rOut = NoResult

\* One call of the URL modifier by the description parser
ResolveAsset ==
    /\ rOut = NoResult
    /\ rOut' = URLModifier(rUrl, rPath, rFiles)
    /\ UNCHANGED <<rUrl, rPath, rFiles, appVars, selVars, viewVars, flatVars, subVars, meshVars>>

(***************************************************************************)
(* Package-macro substitution of an include path, by either flattener.     *)
(***************************************************************************)
PathSegments == {FindPkg, ArgPkg, "package:", "", "..", "meshes", "x.stl"}
IncludePaths == UNION { [1..n -> PathSegments] : n \in 1..MaxSegs }

\* The path of a directive after the flattener's replace()
SubstitutePackageMacros(mode, path) ==
    IF mode = "local" THEN LocalResolvedPath(path) ELSE RemoteCleanPath(path)

SubInit ==
    /\ sPath \in IncludePaths
    /\ sMode \in {"local", "remote"}
    /\ sOut = <<>>

SubIdle ==
    /\ sPath = <<>>
    /\ sMode = Null
    /\ sOut = <<>>

\* The first statement of the loop body of either flattener
Substitute ==
    /\ sOut = <<>>
    /\ sOut' = SubstitutePackageMacros(sMode, sPath)
    /\ UNCHANGED <<sPath, sMode, appVars, selVars, viewVars, flatVars, resVars, meshVars>>

(***************************************************************************)
(* loader.meshLoader = (path, ext, done) => ...                            *)
(* A request holds the resolved path's kind, the extension, where the      *)
(* request is (pc), how often done was called and with which node, the     *)
(* answer of the HEAD probe and that of the geometry loader ("none": not   *)
(* asked).                                                                 *)
(***************************************************************************)
MeshPathKinds == {"http", "abs", "blob", "rel"}
MeshExts == {"stl", "STL", "dae", "obj", "png"}
LowerExt(ext) == IF ext = "STL" THEN "stl" ELSE ext

\* Mutant: no path counts as remote, so no probe is made.
IsRemote_Never(kind) == FALSE

\* path.startsWith('http') || path.startsWith('/')
IsRemote(kind) == kind \in {"http", "abs"}

MeshRequest(kind, ext) ==
    [path |-> kind, ext |-> ext, pc |-> "new", calls |-> 0, node |-> "none",
     probe |-> "none", loader |-> "none"]
MeshRequests == { MeshRequest(k, e) : k \in MeshPathKinds, e \in MeshExts }

\* done(node)
Done(req, node) == [req EXCEPT !.pc = "end", !.calls = @ + 1, !.node = node]
\* loadMesh(): start the loader for the extension, or done(new THREE.Group())
LoadMesh(req) ==
    IF LowerExt(req.ext) \in {"stl", "dae", "obj"}
    THEN [req EXCEPT !.pc = "load"]
    ELSE Done(req, "placeholder")

MeshInit == meshes \in [1..MaxMeshes -> MeshRequests]
MeshIdle == meshes = <<>>

\* The parser calls meshLoader for request i
MeshLoaderCall(i) ==
    /\ meshes[i].pc = "new"
    /\ meshes' = [meshes EXCEPT ![i] =
                    IF IsRemote(@.path) THEN [@ EXCEPT !.pc = "probe"] ELSE LoadMesh(@)]
    /\ UNCHANGED <<appVars, selVars, viewVars, flatVars, resVars, subVars>>

\* fetch(path, { method: 'HEAD' }) settles: res.ok, !res.ok, or rejected
ProbeAnswer(i, res) ==
    /\ meshes[i].pc = "probe"
    /\ meshes' = [meshes EXCEPT ![i] =
                    IF res = "ok" THEN LoadMesh([@ EXCEPT !.probe = res])
                    ELSE Done([@ EXCEPT !.probe = res], "placeholder")]
    /\ UNCHANGED <<appVars, selVars, viewVars, flatVars, resVars, subVars>>

\* The geometry loader calls its onLoad or its onError callback
LoaderAnswer(i, ok) ==
    /\ meshes[i].pc = "load"
    /\ meshes' = [meshes EXCEPT ![i] =
                    IF ok THEN Done([@ EXCEPT !.loader = "ok"], "mesh")
                    ELSE Done([@ EXCEPT !.loader = "err"], "placeholder")]
    /\ UNCHANGED <<appVars, selVars, viewVars, flatVars, resVars, subVars>>

(***************************************************************************)
(* The viewer's link highlighting (components/Viewer.tsx).  A robot is     *)
(* shown; each link has one mesh, named by its link.  A mesh carries its   *)
(* own material ("original") or the shared link-highlight material.        *)
(***************************************************************************)
ViewLinks == {"base", "arm", "hand"}
\* Links whose parent is a joint that is not fixed
Draggable == {"arm", "hand"}
\* What the ray cast of a mouse event hits: a link, or nothing
RayHits == ViewLinks \cup {Null}
NoDrag == [draggedMesh |-> Null, originalMaterial |-> Null]

ViewInit ==
    /\ material = [l \in ViewLinks |-> "original"]
    /\ selectedLinkRef = Null
    /\ originalLinkMaterialRef = Null
    /\ dragInfoRef = NoDrag
    /\ selectedLinkName = Null
    /\ isCtrlPressed = FALSE

ViewIdle ==
    /\ material = <<>>
    /\ selectedLinkRef = Null
    /\ originalLinkMaterialRef = Null
    /\ dragInfoRef = NoDrag
    /\ selectedLinkName = Null
    /\ isCtrlPressed = FALSE

\* unhighlightLink: the materials after it; it also clears both refs
UnhighlightLink ==
    IF selectedLinkRef # Null /\ originalLinkMaterialRef # Null
    THEN [material EXCEPT ![selectedLinkRef] = originalLinkMaterialRef]
    ELSE material

\* handleContextMenu (right click), the ray hitting newSelection.  With Ctrl
\* held the handler selects a joint and leaves the links alone.
HandleContextMenu(newSelection) ==
    /\ IF isCtrlPressed
       THEN UNCHANGED <<material, selectedLinkRef, originalLinkMaterialRef,
                        selectedLinkName>>
       ELSE IF newSelection # Null /\ newSelection = selectedLinkRef
       THEN /\ material' = UnhighlightLink
            /\ selectedLinkRef' = Null
            /\ originalLinkMaterialRef' = Null
            /\ selectedLinkName' = Null
       ELSE IF newSelection # Null
       THEN /\ selectedLinkRef' = newSelection
            /\ originalLinkMaterialRef' = UnhighlightLink[newSelection]
            /\ material' = [UnhighlightLink EXCEPT ![newSelection] = "highlight"]
            /\ selectedLinkName' = newSelection
       ELSE /\ material' = UnhighlightLink
            /\ selectedLinkRef' = Null
            /\ originalLinkMaterialRef' = Null
            /\ selectedLinkName' = Null
    /\ UNCHANGED <<dragInfoRef, isCtrlPressed>>
    /\ UNCHANGED <<appVars, selVars, flatVars, resVars, subVars, meshVars>>

\* closeLinkPopup (App.tsx 144; the close button, the Escape key) and the
\* effect keyed on [selectedLinkName]
ClosePopup ==
    /\ selectedLinkName # Null
    /\ selectedLinkName' = Null
    /\ IF selectedLinkRef # Null
       THEN /\ material' = UnhighlightLink
            /\ selectedLinkRef' = Null
            /\ originalLinkMaterialRef' = Null
       ELSE UNCHANGED <<material, selectedLinkRef, originalLinkMaterialRef>>
    /\ UNCHANGED <<dragInfoRef, isCtrlPressed>>
    /\ UNCHANGED <<appVars, selVars, flatVars, resVars, subVars, meshVars>>

\* handleMouseDown (left button), the ray hitting link.  The button is up
\* when it is pressed: no drag is in progress.
HandleMouseDown(link) ==
    /\ dragInfoRef = NoDrag
    /\ IF ~isCtrlPressed /\ link \in Draggable
       THEN /\ dragInfoRef' = [draggedMesh |-> link, originalMaterial |-> material[link]]
            /\ material' = [material EXCEPT ![link] = "highlight"]
       ELSE UNCHANGED <<dragInfoRef, material>>
    /\ UNCHANGED <<selectedLinkRef, originalLinkMaterialRef, selectedLinkName,
                   isCtrlPressed>>
    /\ UNCHANGED <<appVars, selVars, flatVars, resVars, subVars, meshVars>>

\* handleMouseUpGlobal, the listener of the window's mouseup and blur events
HandleMouseUpGlobal(event) ==
    /\ IF dragInfoRef # NoDrag
       THEN /\ material' = [material EXCEPT ![dragInfoRef.draggedMesh] =
                                               dragInfoRef.originalMaterial]
            /\ dragInfoRef' = NoDrag
       ELSE UNCHANGED <<material, dragInfoRef>>
    /\ UNCHANGED <<selectedLinkRef, originalLinkMaterialRef, selectedLinkName,
                   isCtrlPressed>>
    /\ UNCHANGED <<appVars, selVars, flatVars, resVars, subVars, meshVars>>

\* App's keydown / keyup handlers: setIsCtrlPressed(pressed)
SetCtrlPressed(pressed) ==
    /\ isCtrlPressed # pressed
    /\ isCtrlPressed' = pressed
    /\ UNCHANGED <<material, selectedLinkRef, originalLinkMaterialRef, dragInfoRef,
                   selectedLinkName>>
    /\ UNCHANGED <<appVars, selVars, flatVars, resVars, subVars, meshVars>>

FlatIdle ==
    /\ fdocs = <<>>
    /\ fmode = Null
    /\ fstack = <<>>
    /\ fresult = <<>>
    /\ fstatus = Null
    /\ fwarn = {}
    /\ fpass = FirstPass

Init == AppInit /\ SelIdle /\ FlatIdle /\ ResIdle /\ SubIdle /\ MeshIdle /\ ViewIdle
Spec == Init /\ [][Next]_vars

SelectInit == SelInit /\ AppInit /\ FlatIdle /\ ResIdle /\ SubIdle /\ MeshIdle /\ ViewIdle
SelectNext == CollectAndSelect
SpecSelect == SelectInit /\ [][SelectNext]_vars

FlattenInit == FlatInit /\ AppInit /\ SelIdle /\ ResIdle /\ SubIdle /\ MeshIdle /\ ViewIdle
FlattenNext == FlatStart \/ FlatInclude \/ FlatTooDeep \/ FlatSkip \/ FlatReturn
SpecFlatten == FlattenInit /\ [][FlattenNext]_vars

ResolveInit == ResInit /\ AppInit /\ SelIdle /\ FlatIdle /\ SubIdle /\ MeshIdle /\ ViewIdle
ResolveNext == ResolveAsset
SpecResolve == ResolveInit /\ [][ResolveNext]_vars

SubstituteInit == SubInit /\ AppInit /\ SelIdle /\ FlatIdle /\ ResIdle /\ MeshIdle /\ ViewIdle
SubstituteNext == Substitute
SpecSubstitute == SubstituteInit /\ [][SubstituteNext]_vars

MeshesInit == MeshInit /\ AppInit /\ SelIdle /\ FlatIdle /\ ResIdle /\ SubIdle /\ ViewIdle
MeshNext ==
    \/ \E i \in 1..Len(meshes) : MeshLoaderCall(i)
    \/ \E i \in 1..Len(meshes), res \in {"ok", "notok", "neterr"} : ProbeAnswer(i, res)
    \/ \E i \in 1..Len(meshes), ok \in BOOLEAN : LoaderAnswer(i, ok)
SpecMesh == MeshesInit /\ [][MeshNext]_vars

(***************************************************************************)
(* Properties of the App component, checked under Spec.                    *)
(***************************************************************************)
LoadIds == 1..Len(loads)
AllSettled == \A l \in LoadIds : ~InFlight(l)
LastLoad == Len(loads)

\* The description text load l commits when it succeeds, and the entry path
\* it sets.
TextOfLoad(l) ==
    IF IsXacroFilename(loads[l].entry.name)
    THEN [src |-> loads[l].entry.text, expanded |-> TRUE]
    ELSE Text(loads[l].entry.text)
PathOfLoad(l) ==
    IF loads[l].kind = "sample" THEN PathOf(loads[l].entry)
    ELSE [dir |-> <<>>, name |-> loads[l].entry.name]

\* C1: once every load has finished and the load started last has committed
\* its result, the committed description text and the entry-document path
\* are those of the load started last, whatever the completion order.
C1_LaterLoadWins ==
    (mounted /\ Len(loads) >= 2 /\ AllSettled
       /\ loads[LastLoad].outcome = "committed" /\ loads[LastLoad].rootRead = "ok")
    => (urdfContent = TextOfLoad(LastLoad) /\ currentFilePath = PathOfLoad(LastLoad))

\* The most recently completed successful load (0: none).
LastSuccessful ==
    IF contentLoad \in LoadIds /\ loads[contentLoad].outcome = "committed"
    THEN contentLoad ELSE 0

\* C4: whenever a parse session has the asset resolver in use, the text it
\* parsed, the entry path it closed over and the index the resolver consults
\* all come from the most recently completed successful load.
C4_ResolverBoundToOneLoad ==
    \A t \in 1..Len(timers) :
        (mounted /\ timers[t].pc = "meshes")
        => /\ timers[t].cLoad = LastSuccessful
           /\ timers[t].pLoad = timers[t].cLoad
           /\ maps[localFilesRef].owner = timers[t].cLoad

\* C5: every minted object URL is tracked until it is revoked, none is revoked
\* twice, and after teardown every minted URL has been revoked.
C5_BlobUrlsRevokedOnce ==
    /\ \A b \in DOMAIN revoked : revoked[b] <= 1
    /\ \A b \in DOMAIN revoked : revoked[b] = 0 => b \in createdBlobUrls
    /\ ~mounted => \A b \in DOMAIN revoked : revoked[b] = 1

\* C9: when the read of a load's entry document fails, that step produces an
\* error, clears the loading indicator and commits no description text.
C9_UnreadableRootFails ==
    [][\A l \in LoadIds :
          (loads[l].rootRead # "failed" /\ loads'[l].rootRead = "failed")
          => (error' # Null /\ loading' = FALSE /\ urdfContent' = urdfContent)]_vars

NoDescriptionMessages ==
    { "No .urdf or .xacro file found in the selected folder.",
      "No .urdf or .xacro file found in the dropped folder." }

\* C10: the step in which a folder or drop load finds no description
\* candidate sets a no-description error, clears the loading indicator,
\* selects no entry document, starts no parse and leaves the committed
\* description text and the entry path as they were.
C10_NoDescriptionFound ==
    [][\A l \in 1..Len(loads') :
          (loads'[l].outcome = "nodesc" /\ (l > Len(loads) \/ loads[l].outcome # "nodesc"))
          => /\ error' \in NoDescriptionMessages
             /\ loading' = FALSE
             /\ loads'[l].entry = NoFile
             /\ loads'[l].pc = "end"
             /\ urdfContent' = urdfContent
             /\ currentFilePath' = currentFilePath
             /\ timers' = timers]_vars

\* C10 witness: a drop load and a folder load have both ended without a
\* description candidate.
C10_Witness ==
    /\ \E l \in LoadIds : loads[l].kind = "drop" /\ loads[l].outcome = "nodesc"
    /\ \E l \in LoadIds : loads[l].kind = "folder" /\ loads[l].outcome = "nodesc"
    /\ error \in NoDescriptionMessages
    /\ ~loading


(***************************************************************************)
(* Properties of entry-point selection, checked under SpecSelect.          *)
(***************************************************************************)
SomeMain == \E i \in 1..Len(candidates) : HasMain(candidates[i])
SomeRobot == \E i \in 1..Len(candidates) : HasRobot(candidates[i])
SomeRootLevel == \E i \in 1..Len(candidates) : candidates[i].dir = <<>>
IsRootLevel(file) == file.dir = <<>>

\* C7: when a candidate's file name contains "main" in any letter case, the
\* selected entry contains "main", whatever other candidates contain "robot"
\* or lie at root level; otherwise, when a candidate's name contains "robot",
\* the selected entry contains "robot".
C7_MainBeforeRobot ==
    selDone =>
        /\ SomeMain => HasMain(entryFile)
        /\ (~SomeMain /\ SomeRobot) => HasRobot(entryFile)

\* C7 witness: a "robot" candidate and a root-level candidate are enumerated
\* before an upper-case "MAIN" candidate, and the "MAIN" one is selected.
C7_Witness ==
    /\ selDone
    /\ Len(candidates) = 3
    /\ HasRobot(candidates[1]) /\ ~HasMain(candidates[1])
    /\ IsRootLevel(candidates[2]) /\ ~HasMain(candidates[2])
    /\ candidates[3].name = <<"MAIN", "_v2", ".urdf">>
    /\ entryFile = candidates[3]

\* C8: when no candidate's name contains "main" or "robot" and some candidate
\* is at root level, the selected entry is at root level, in whatever order
\* the candidates are enumerated.
C8_RootLevelFallback ==
    (selDone /\ ~SomeMain /\ ~SomeRobot
       /\ SomeRootLevel)
    => IsRootLevel(entryFile)

(***************************************************************************)
(* Properties of the flatteners, checked under SpecFlatten.                *)
(***************************************************************************)
\* Simultaneous substitution, written as one left-to-right pass that copies
\* the text and puts, in place of each directive whose target is found, the
\* target's own substitution (stripped of its wrapper); a directive whose
\* target is not found is copied.
RECURSIVE SimultaneousSubstitution(_, _, _), SubstituteFrom(_, _, _, _)
SimultaneousSubstitution(text, key, fuel) == SubstituteFrom(text, key, fuel, 1)
SubstituteFrom(text, key, fuel, pos) ==
    IF pos > Len(text) THEN <<>>
    ELSE LET len == MatchAt(text, pos, fmode) IN
      IF len = 0 THEN << text[pos] >> \o SubstituteFrom(text, key, fuel, pos + 1)
      ELSE LET target == TargetKey(fmode, key, PathSegs(text[pos + 1]))
               fragment ==
                 IF fuel = 0 \/ ~TargetFound(fmode, target, fdocs)
                 THEN SubSeq(text, pos, pos + len - 1)
                 ELSE IF fmode = "local"
                 THEN SimultaneousSubstitution(StripLocal(fdocs.text[target]), target, fuel - 1)
                 ELSE StripRemote(SimultaneousSubstitution(fdocs.text[target], target, fuel - 1))
           IN fragment \o SubstituteFrom(text, key, fuel, pos + len)

RootText == fdocs.text[RootKey]
RootMatches == Scan(RootText, fmode)
RootTargetFound(i) ==
    TargetFound(fmode, TargetKey(fmode, RootKey, RootMatches[i].path), fdocs)
Contains(text, tok) == \E i \in 1..Len(text) : text[i] = tok

\* C2: a document is never entered again while a call on it is still active
\* (A includes B includes A ends with the cycle broken and a result).
C2_IncludeCycleBroken ==
    /\ \A i, j \in 1..Len(fstack) : i < j => fstack[i].key # fstack[j].key
    /\ fstatus # "deep"

\* C3: for a root document with at least two sibling directives whose targets
\* are all found, the flattened result is the simultaneous substitution of
\* all of them; and while a call is active, every match it has not processed
\* yet still sits at its recorded offset in newContent.
C3_SimultaneousSubstitution ==
    /\ (fstatus = "done" /\ Len(RootMatches) >= 2
          /\ \A i \in 1..Len(RootMatches) : RootTargetFound(i))
       => fresult = SimultaneousSubstitution(RootText, RootKey, MaxDepth)
    /\ fstatus = "run" =>
         \A f \in 1..Len(fstack) :
            \A k \in (fstack[f].k + 1)..Len(fstack[f].matches) :
               LET m == fstack[f].matches[MatchOrder(Len(fstack[f].matches))[k]] IN
                 /\ MatchAt(fstack[f].newContent, m.index, fmode) = m.len
                 /\ PathSegs(fstack[f].newContent[m.index + 1]) = m.path

\* C3 witness: a finished run on a root with text followed by two directives
\* whose fragments have different lengths (three tokens and one token).
C3_Witness ==
    /\ fstatus = "done"
    /\ RootText = Wrap(<< Tok("x") >> \o Include(BKey) \o IncludeWs(CKey))
    /\ fdocs.present = {RootKey, BKey, CKey}
    /\ fresult = Wrap(<< Tok("x"), Tok("x"), Tok("x"), Tok("x"), Tok("z") >>)

Resolving == rOut # NoResult
LocalHit == Len(rFiles) > 0 /\ FindFileInMap(rUrl, rFiles) # NoFile

C12_UrdfSiblingOneLevelUp ==
    (Resolving /\ ~LocalHit /\ rUrl.scheme = "rel"
       /\ ModelDirEndsWithUrdf(rPath) /\ ~StartsWithDotDot(rUrl))
    => rOut = Resolved("base", Pop(rPath.dir) \o rUrl.dir, rUrl.name, 0)


(***************************************************************************)
(* Properties of package-macro substitution, checked under SpecSubstitute. *)
(***************************************************************************)
\* The canonical form: each $(find pkg) segment becomes package://pkg and
\* every other segment stays as it is.
RECURSIVE CanonicalPackageForm(_)
CanonicalPackageForm(path) ==
    IF path = <<>> THEN <<>>
    ELSE (IF Head(path) = FindPkg THEN <<"package:", "", "pkg">> ELSE <<Head(path)>>)
         \o CanonicalPackageForm(Tail(path))

\* C13: either flattener rewrites $(find pkg) in an include path to
\* package://pkg and leaves a path without such a token as it is.
C13_FindBecomesPackageScheme ==
    sOut # <<>> => sOut = CanonicalPackageForm(sPath)


(***************************************************************************)
(* Further properties of the flatteners, checked under SpecFlatten.        *)
(***************************************************************************)
\* C14: a root document in which the flattener finds no include directive is
\* returned as it is, token for token, whatever documents exist beside it.
C14_NoDirectiveUnchanged ==
    (fstatus = "done" /\ Len(RootMatches) = 0) => fresult = RootText

\* C14 witness: a finished run on a wrapped root of three text pieces, with
\* other documents present.
C14_Witness ==
    /\ fstatus = "done"
    /\ Len(RootMatches) = 0
    /\ Len(RootText) >= 5
    /\ {BKey, CKey} \subseteq fdocs.present
    /\ fresult = RootText


(***************************************************************************)
(* Further properties of the App component, checked under Spec.            *)
(***************************************************************************)
\* C15: no step changes the contents of an index object that exists already;
\* a new load leaves the previous index object as it was.
C15_IndexNotMutatedInPlace ==
    [][\A m \in 1..Len(maps) : maps'[m].files = maps[m].files]_vars

OnlyFileLoad == Len(loads) = 1 /\ loads[1].kind = "file" /\ loads[1].rootRead = "ok"
NoEarlierDrop == \A l \in 1..(LastLoad - 1) : loads[l].kind # "drop"

C17_LookupsReadOwnIndex ==
    /\ \A l \in LoadIds :
          (loads[l].pc = "flatten" /\ maps[loads[l].map].files # <<>>)
          => maps[loads[l].map].owner = l
    /\ \A t \in 1..Len(timers) :
          (timers[t].pc = "meshes" /\ maps[localFilesRef].files # <<>>)
          => maps[localFilesRef].owner = timers[t].cLoad

\* C19: a load that ended with a mesh replaced by a placeholder is not in the
\* state of a clean load (robot installed, no error, not loading): the state
\* tells loaded-with-warnings from loaded-cleanly.
C19_WarningsDistinguishable ==
    \A t \in 1..Len(timers) :
        (mounted /\ t = Len(timers) /\ AllSettled
           /\ timers[t].pc = "done" /\ timers[t].placeholder
           /\ urdfContent = timers[t].content)
        => ~(robot = timers[t].content /\ error = Null /\ ~loading)

\* C20: when the description parser rejects the text (a parse timer ends
\* rejected) or the macro expander rejects it (a flattening load ends failed),
\* the error state carries the failure, the loading indicator is cleared, and
\* the step installs no robot and commits no text.
C20_ParseFailureFatal ==
    [][/\ \A t \in 1..Len(timers) :
             (mounted /\ timers[t].pc = "timer" /\ timers'[t].pc = "rejected")
             => (error' = "Failed to parse URDF" /\ loading' = FALSE /\ robot' = robot)
       /\ \A l \in LoadIds :
             (loads[l].pc = "flatten" /\ loads'[l].outcome = "failed")
             => (error' = "Xacro Error" /\ loading' = FALSE /\ robot' = robot
                   /\ urdfContent' = urdfContent /\ timers' = timers)]_vars

\* C20 witness: a parse was rejected and a macro expansion was rejected.
C20_Witness ==
    /\ mounted
    /\ \E t \in 1..Len(timers) : timers[t].pc = "rejected"
    /\ \E l \in LoadIds : loads[l].outcome = "failed" /\ loads[l].rootRead = "ok"
                            /\ IsXacroFilename(loads[l].entry.name)
    /\ error \in {"Failed to parse URDF", "Xacro Error"}
    /\ ~loading


(***************************************************************************)
(* Properties of the mesh loader, checked under SpecMesh.                  *)
(***************************************************************************)
RemoteKinds == {"http", "abs"}
SupportedExts == {"stl", "STL", "dae", "obj"}

SubDKey == <<"sub", "d.xacro">>
SubCKey == <<"sub", "c.xacro">>
DeepEKey == <<"sub", "deep", "e.xacro">>
NestedKeys == {RootKey, CKey, SubDKey, SubCKey, DeepEKey}

\* A directive written with white space around the = of its attribute
IncludeSpaced(key) == << Tok("inc="), PathTok(key), Tok("q"), Tok("end") >>
NestedPieces ==
    { << Tok("x") >>, Include(SubDKey), Include(DeepEKey), IncludeSpaced(SubDKey) }
NestedRootTexts ==
    { Wrap(<<>>) } \cup { Wrap(p) : p \in NestedPieces }
        \cup { Wrap(p \o q) : p \in NestedPieces, q \in NestedPieces }
SubDTexts ==
    { Wrap(Include(<<"c.xacro">>)),
      Wrap(Include(<<"deep", "e.xacro">>) \o << Tok("y") >>) }
\* Documents with an XML declaration and a comment after the closing root tag
Commented(body) == << Tok("xml") >> \o Wrap(body) \o << Tok("ws"), Tok("cmt") >>
SubCTexts ==
    { Wrap(<< Tok("z") >>), Wrap(Include(<<"d.xacro">>)), Commented(<< Tok("z") >>) }
RootCTexts == { Wrap(<< Tok("w") >>), Commented(<< Tok("w") >>) }
DeepETexts == { Wrap(Include(<<"..", "c.xacro">>)) }
NestedStores ==
    { [text |-> [k \in NestedKeys |->
                    IF k = RootKey THEN a ELSE IF k = SubDKey THEN d
                    ELSE IF k = SubCKey THEN sc ELSE IF k = CKey THEN c ELSE e],
       present |-> {k \in NestedKeys :
                       \/ k = RootKey
                       \/ k = SubDKey /\ d # NoDoc
                       \/ k = SubCKey /\ sc # NoDoc
                       \/ k = CKey /\ c # NoDoc
                       \/ k = DeepEKey /\ e # NoDoc}] :
        a \in NestedRootTexts, d \in SubDTexts \cup {NoDoc},
        sc \in SubCTexts \cup {NoDoc}, c \in RootCTexts \cup {NoDoc},
        e \in DeepETexts \cup {NoDoc} }

NestedFlatInit ==
    /\ fmode \in {"local", "remote"}
    /\ fdocs \in NestedStores
    /\ fstack = <<>>
    /\ fresult = <<>>
    /\ fstatus = "init"
    /\ fwarn = {}
    /\ fpass = FirstPass
NestedInit == NestedFlatInit /\ AppInit /\ SelIdle /\ ResIdle /\ SubIdle /\ MeshIdle /\ ViewIdle
NestedNext == FlatStart \/ FlatInclude \/ FlatTooDeep \/ FlatSkip \/ FlatReturn
SpecNested == NestedInit /\ [][NestedNext]_vars

\* A path with its "." segments dropped and each ".." taking back the
\* segment before it
RECURSIVE Collapse(_, _)
Collapse(done, rest) ==
    IF rest = <<>> THEN done
    ELSE IF Head(rest) = "." THEN Collapse(done, Tail(rest))
    ELSE IF Head(rest) = ".." THEN Collapse(Pop(done), Tail(rest))
    ELSE Collapse(Append(done, Head(rest)), Tail(rest))
\* The directory of the document at path joined with the reference ref
RelativeTo(path, ref) == Collapse(Pop(path), ref)
IsRelativeRef(ref) ==
    /\ ref # <<>>
    /\ ref[1] \notin {"", "http:", "https:", "package:", FindPkg, ArgPkg}

\* C21: the document a call of the flattener is working on is the one the
\* calling document's directive names relative to the calling document's own
\* path, whichever flattener runs and however deep the call is.
C21_NestedIncludesRelativeToOwnPath ==
    \A i \in 2..Len(fstack) :
        LET caller == fstack[i - 1] IN
          IsRelativeRef(CurrentMatch(caller).path)
              => fstack[i].key = RelativeTo(caller.key, CurrentMatch(caller).path)


Count(text, tok) == Len(SelectSeq(text, LAMBDA t : t = tok))

\* C22: a finished flattening holds the root element's open and close tags
\* once each, those of the root document, and no XML declaration of an
\* included document, also when an included document ends in a comment after
\* its closing root tag.
C22_RootWrapperOnce ==
    fstatus = "done"
        => /\ Count(fresult, Tok("robot")) = 1
           /\ Count(fresult, Tok("/robot")) = 1
           /\ Count(fresult, Tok("xml")) = 0


(***************************************************************************)
(* Relative asset references, checked under Spec.                          *)
(***************************************************************************)
\* The urdf-sibling exception, by the directory the entry document lies in
UrdfSiblingCase(entry, url) ==
    Len(entry.dir) >= 2 /\ Last(entry.dir) = "urdf" /\ ~StartsWithDotDot(url)

\* C23: while the meshes of a committed description load, a relative
\* reference without local content, outside the urdf-sibling exception, is
\* resolved to the entry document's directory joined with the reference.
C23_RelativeToEntryDirectory ==
    \A t \in 1..Len(timers), url \in AssetUrls :
        LET l == timers[t].cLoad
            files == maps[localFilesRef].files
        IN (/\ timers[t].pc = "meshes"
            /\ l \in 1..Len(loads) /\ timers[t].pLoad = l
            /\ url.scheme = "rel"
            /\ FindFileInMap(url, files) = NoFile
            /\ ~UrdfSiblingCase(loads[l].entry, url))
           => URLModifier(url, timers[t].path, files)
                 = Resolved("base", loads[l].entry.dir \o url.dir, url.name, 0)


(***************************************************************************)
(* The index of a drop load, checked under Spec.                           *)
(***************************************************************************)
\* C24: an index built by a drop load exists only once the traversal of the
\* dropped tree has completed, and holds every file of the tree.
C24_DropIndexComplete ==
    \A m \in 1..Len(maps) :
        LET l == maps[m].owner IN
          (l \in 1..Len(loads) /\ loads[l].kind = "drop")
              => /\ loads[l].pc # "listing"
                 /\ maps[m].files = loads[l].items

\* A drop load of a tree of two files has replaced the index.
C24_Witness ==
    \E l \in 1..Len(loads) :
        /\ loads[l].kind = "drop" /\ loads[l].pc = "reading"
        /\ maps[localFilesRef].owner = l
        /\ Len(loads[l].items) = 2
        /\ Len(maps[localFilesRef].files) = 2


(***************************************************************************)
(* A sample macro document: handleSampleChange runs fetchAndFlattenXacro,  *)
(* and processAndSetContent then runs flattenXacro over its result with    *)
(* the index localFilesRef.current holds at that moment: the one the       *)
(* sample handler emptied, or the one a folder or drop load assigned while *)
(* the sample was being fetched.                                           *)
(***************************************************************************)
EmptyIndex == [text |-> [k \in DocKeys |-> NoDoc], present |-> {}]
FolderIndex ==
    [text |-> [k \in DocKeys |-> IF k = BKey THEN Wrap(<< Tok("y") >>) ELSE NoDoc],
     present |-> {BKey}]
IndexesAtSecondPass == {EmptyIndex, FolderIndex}

\* processAndSetContent(filename, content, true):
\* await flattenXacro(content, localFilesRef.current)
SecondPass(index) ==
    /\ fstatus = "done"
    /\ fmode = "remote"
    /\ fpass.n = 1
    /\ fpass' = [n |-> 2, first |-> fresult]
    /\ fmode' = "local"
    /\ fdocs' = index
    /\ fstack' = << [key |-> RootKey, newContent |-> fresult,
                     matches |-> Scan(fresult, "local"), k |-> 0] >>
    /\ fstatus' = "run"
    /\ fresult' = <<>>
    /\ UNCHANGED <<fwarn, appVars, selVars, viewVars, resVars, subVars, meshVars>>

TwoPassInit ==
    /\ FlatInit /\ fmode = "remote"
    /\ AppInit /\ SelIdle /\ ResIdle /\ SubIdle /\ MeshIdle /\ ViewIdle
TwoPassNext ==
    \/ FlatStart
    \/ FlatInclude
    \/ FlatTooDeep
    \/ FlatSkip
    \/ FlatReturn
    \/ \E index \in IndexesAtSecondPass : SecondPass(index)
SpecTwoPass == TwoPassInit /\ [][TwoPassNext]_vars

\* C25: the local pass over the text the remote pass produced gives that
\* text back.
C25_SecondPassUnchanged ==
    (fpass.n = 2 /\ fstatus = "done") => fresult = fpass.first


(***************************************************************************)
(* Progress: every started file read, directory traversal, fetch, macro    *)
(* expansion, parse timer and set of mesh requests completes or errors.    *)
(* The user's own actions (picking, dropping, selecting, leaving the page) *)
(* are under no such obligation.                                           *)
(***************************************************************************)
Fairness ==
    /\ WF_vars(\E l \in 1..Len(loads) : FileReadOk(l) \/ FileReadErr(l))
    /\ WF_vars(\E l \in 1..Len(loads) : EntryReadOk(l) \/ EntryReadErr(l))
    /\ WF_vars(\E l \in 1..Len(loads) : DropListed(l) \/ DropListedUnmounted(l))
    /\ WF_vars(\E l \in 1..Len(loads), res \in FetchResults : SampleFetched(l, res))
    /\ WF_vars(\E l \in 1..Len(loads), ok \in BOOLEAN : XacroDone(l, ok))
    /\ WF_vars(\E t \in 1..Len(timers), res \in {"ok", "meshes", "err"} : ParseTimer(t, res))
    /\ WF_vars(\E t \in 1..Len(timers), placeholder \in BOOLEAN : MeshesLoaded(t, placeholder))
SpecLive == Init /\ [][Next]_vars /\ Fairness

\* C26: while the component stays mounted, a loading indicator that is set
\* is eventually cleared.
C26_LoadingEventuallyCleared ==
    (mounted /\ loading) ~> (~loading \/ ~mounted)

(***************************************************************************)
(* The viewer with a description already loaded: the state the component   *)
(* is in after the single file arm.urdf has been picked, read, parsed and  *)
(* installed, from which further loads start.                              *)
(***************************************************************************)
LoadedFile == File(<<>>, <<"arm", ".urdf">>, "T1")
LoadedInit ==
    /\ urdfContent = Text(LoadedFile.text)
    /\ currentFilePath = PathOf(LoadedFile)
    /\ loading = FALSE
    /\ error = Null
    /\ robot = Text(LoadedFile.text)
    /\ maps = << MapObject(<<>>, 0) >>
    /\ localFilesRef = 1
    /\ createdBlobUrls = {}
    /\ loads = <<>>
    /\ timers = <<>>
    /\ revoked = <<>>
    /\ mounted = TRUE
    /\ contentLoad = 0
    /\ pathLoad = 0
    /\ SelIdle /\ FlatIdle /\ ResIdle /\ SubIdle /\ MeshIdle /\ ViewIdle
SpecLoaded == LoadedInit /\ [][Next]_vars

\* C27: the step in which a load commits its text, while the text committed
\* before it is parsed and installed, leaves no error message shown.
C27_SuccessClearsError ==
    [][\A l \in LoadIds :
          (/\ mounted /\ robot = urdfContent
           /\ loads[l].outcome = "pending"
           /\ loads'[l].outcome = "committed" /\ loads'[l].rootRead = "ok")
          => error' = Null]_vars


OtherMode(mode) == IF mode = "local" THEN "remote" ELSE "local"

\* C28: the directives a call of one flattener finds in its document, with
\* their spans and raw paths, are those the other flattener finds in the
\* same text.
C28_SameDirectivesRecognised ==
    \A i \in 1..Len(fstack) :
        fstack[i].k = 0
            => fstack[i].matches = Scan(fstack[i].newContent, OtherMode(fmode))


(***************************************************************************)
(* The tests on file names, checked under SpecSelect.                      *)
(***************************************************************************)
InSeq(file, files) == \E i \in 1..Len(files) : files[i] = file

\* C29: once the candidates of a listing are collected, every file whose
\* name content processing takes for a macro document is a candidate, and
\* the macro test of sample loading gives the answer of content processing.
C29_SameDocumentTest ==
    selDone =>
        \A i \in 1..Len(listing) :
            /\ IsXacroFilename(listing[i].name) => InSeq(listing[i], candidates)
            /\ IsXacroSample(listing[i].name) <=> IsXacroFilename(listing[i].name)


(***************************************************************************)
(* The viewer's link highlighting, checked under SpecViewer.               *)
(***************************************************************************)
ViewerInit ==
    ViewInit /\ AppInit /\ SelIdle /\ FlatIdle /\ ResIdle /\ SubIdle /\ MeshIdle
ViewerNext ==
    \/ \E newSelection \in RayHits : HandleContextMenu(newSelection)
    \/ ClosePopup
    \/ \E link \in RayHits : HandleMouseDown(link)
    \/ \E event \in {"mouseup", "blur"} : HandleMouseUpGlobal(event)
    \/ \E pressed \in BOOLEAN : SetCtrlPressed(pressed)
SpecViewer == ViewerInit /\ [][ViewerNext]_vars

\* C30: when no link is selected and no drag is in progress, no mesh carries
\* the link-highlight material.
C30_NoStaleHighlight ==
    (selectedLinkRef = Null /\ dragInfoRef = NoDrag)
        => \A l \in DOMAIN material : material[l] # "highlight"

====
